---- MODULE Spec2Model ----
(***************************************************************************)
(* Subject-aware crop planner of src/advanced_smart_crop.py                *)
(* (AdvancedSmartCropper and the module-level instance advanced_cropper),  *)
(* as driven by format_video_clip of src/app.py.                           *)
(*                                                                         *)
(* A detection is the tuple <<x, y, w, h, c>>; the confidence c is kept in *)
(* tenths (10 = 1.0, 8 = 0.8, 6 = 0.6).  A target aspect ratio "a:b" is    *)
(* the pair <<a, b>>.  Python's int(p / q) on the non-negative values met  *)
(* here is p \div q.                                                       *)
(***************************************************************************)
EXTENDS Integers, Sequences, FiniteSets, TLC

VARIABLES
    tracking_history,   \* advanced_cropper.tracking_history (deque, maxlen 10)
    pc,                 \* per thread: "idle", "sampling", "done"
    video,              \* per thread: <<frame_width, frame_height>> of the open capture
    target,             \* per thread: target_aspect_ratio of the analysis
    num_samples,        \* per thread: num_samples argument of analyze_video_smooth
    idx,                \* per thread: loop variable i of the sampling loop
    attempted,          \* per thread: sample indexes for which cap.read() was called
    all_crops,          \* per thread: local list all_crops
    face_counts,        \* per thread: local list face_counts
    last,               \* per thread: what the latest sample step computed
    result,             \* per thread: return value of analyze_video_smooth
    clips,              \* per thread: analyses started so far by this thread
    own_history,        \* per thread: the history this analysis alone would have built
    nms_pc,             \* pure-function harness of non_max_suppression
    nms_faces,          \*   its input list
    nms_keep,           \*   the output of the first application
    nms_again,          \*   the output of applying it to nms_keep
    expired,            \* per thread: the analysis deadline passed during sampling
    smart_filter,       \* per thread: crop_data the smart-crop filter was built from
    output,             \* per thread: the path of format_video_clip that ran ffmpeg last
    det_pc,             \* pure-function harness of detect_all_faces
    det_frame,          \*   what each detection method does on the frame
    det_out,            \*   what detect_all_faces returns or raises
    trk_in,             \* tracker harness: the raw centroids fed so far
    trk_out,            \*   the focus points emitted for them
    foc_pc,             \* pure-function harness of calculate_smooth_focus
    foc_faces,          \*   the detections passed
    foc_history,        \*   tracking_history before the call
    foc_out,            \*   the point returned and tracking_history after the call
    smp_total,          \* sampling loop: total_frames of the clip
    smp_n,              \*   num_samples
    smp_pos             \*   the frame positions set so far, in loop order

vars == <<tracking_history, pc, video, target, num_samples, idx, attempted,
          all_crops, face_counts, last, result, clips, own_history,
          nms_pc, nms_faces, nms_keep, nms_again,
          expired, smart_filter, output, det_pc, det_frame, det_out, trk_in, trk_out,
          foc_pc, foc_faces, foc_history, foc_out, smp_total, smp_n, smp_pos>>

procVars == <<tracking_history, pc, video, target, num_samples, idx, attempted,
              all_crops, face_counts, last, result, clips, own_history>>

nmsVars == <<nms_pc, nms_faces, nms_keep, nms_again>>

clipVars == <<expired, smart_filter, output>>

detVars == <<det_pc, det_frame, det_out>>

trkVars == <<trk_in, trk_out>>

focVars == <<foc_pc, foc_faces, foc_history, foc_out>>

smpVars == <<smp_total, smp_n, smp_pos>>

otherVars == <<clipVars, detVars, trkVars, focVars, smpVars>>

(***************************************************************************)
(* Bounds of the model                                                     *)
(***************************************************************************)
MaxSamples == 5      \* samples per analysis in Spec (the caller passes 15)
MaxCalls == 12       \* calls of calculate_smooth_focus in SpecTrack
ClipSamples == 3     \* samples per analysis in SpecClip
MaxFrames == 12      \* total_frames in SpecSampling
MaxNum == 5          \* num_samples in SpecSampling
ConcSamples == 2     \* samples per analysis in SpecReuse and SpecConc
MaxClips == 2        \* analyses one thread runs one after the other in SpecReuse
MaxFaces == 3        \* length of the lists given to non_max_suppression in SpecNMS

Min(a, b) == IF a < b THEN a ELSE b
Max(a, b) == IF a > b THEN a ELSE b

None == [mode |-> "none"]

(***************************************************************************)
(* non_max_suppression                                                     *)
(***************************************************************************)
overlap_thresh10 == 3

Area(f) == f[3] * f[4]

Intersection(a, b) ==
    LET w == Max(0, Min(a[1] + a[3], b[1] + b[3]) - Max(a[1], b[1]))
        h == Max(0, Min(a[2] + a[4], b[2] + b[4]) - Max(a[2], b[2]))
    IN  w * h

\* overlap > overlap_thresh for candidate f against the kept box k.  With a
\* zero-area k the quotient is 0/0 = nan, and nan > 0.3 is False.
Suppressed_CandidateArea(k, f) ==
    /\ Area(f) > 0
    /\ 10 * Intersection(k, f) > overlap_thresh10 * Area(f)

Suppressed(k, f) ==
    /\ Area(k) > 0
    /\ 10 * Intersection(k, f) > overlap_thresh10 * Area(k)

Perms(n) == {p \in [1..n -> 1..n] : \A i, j \in 1..n : i # j => p[i] # p[j]}

\* ascending: the reversal left out
argsort_Ascending(faces) ==
    {p \in Perms(Len(faces)) :
        \A i \in 1..(Len(faces) - 1) : faces[p[i]][5] <= faces[p[i + 1]][5]}

\* np.argsort(scores)[::-1]: the default sort is not stable, so the order of
\* equal scores is whatever the build's sort produces.
argsort_desc(faces) ==
    {p \in Perms(Len(faces)) :
        \A i \in 1..(Len(faces) - 1) : faces[p[i]][5] >= faces[p[i + 1]][5]}

RECURSIVE nms_loop(_, _, _)
nms_loop(faces, idxs, keep) ==
    IF idxs = <<>> THEN keep
    ELSE LET i == Head(idxs)
             rest == SelectSeq(Tail(idxs), LAMBDA j : ~Suppressed(faces[i], faces[j]))
         IN  nms_loop(faces, rest, Append(keep, i))

non_max_suppression(faces, idxs) ==
    IF Len(faces) = 0 THEN <<>>
    ELSE LET keep == nms_loop(faces, idxs, <<>>)
         IN  [k \in 1..Len(keep) |-> faces[keep[k]]]

\* every output the build can produce for this input
nms_results(faces) ==
    IF Len(faces) = 0 THEN {<<>>}
    ELSE {non_max_suppression(faces, p) : p \in argsort_desc(faces)}

(***************************************************************************)
(* calculate_smooth_focus                                                  *)
(***************************************************************************)
history_maxlen == 10

RECURSIVE SumSeq(_)
SumSeq(s) == IF s = <<>> THEN 0 ELSE Head(s) + SumSeq(Tail(s))

face_weight(f) == f[3] * f[4] * f[5]
face_center(f) == <<f[1] + f[3] \div 2, f[2] + f[4] \div 2>>

\* the weighted center of all faces, or the frame center when the total weight is 0
weighted_center(faces, frame_width, frame_height) ==
    LET total_x == SumSeq([k \in 1..Len(faces) |-> face_center(faces[k])[1] * face_weight(faces[k])])
        total_y == SumSeq([k \in 1..Len(faces) |-> face_center(faces[k])[2] * face_weight(faces[k])])
        total_weight == SumSeq([k \in 1..Len(faces) |-> face_weight(faces[k])])
    IN  IF total_weight > 0
        THEN <<total_x \div total_weight, total_y \div total_weight>>
        ELSE <<frame_width \div 2, frame_height \div 2>>

deque_append_Unbounded(history, p) == Append(history, p)

\* deque(maxlen=10).append
deque_append(history, p) ==
    IF Len(history) >= history_maxlen THEN Append(Tail(history), p) ELSE Append(history, p)

\* the mean of the whole history
smooth_MeanOfAll(history, new) ==
    IF Len(history) >= 3
    THEN <<SumSeq([k \in 1..Len(history) |-> history[k][1]]) \div Len(history),
           SumSeq([k \in 1..Len(history) |-> history[k][2]]) \div Len(history)>>
    ELSE new

\* the last three points added up and not divided
smooth_SumOfLastThree(history, new) ==
    IF Len(history) >= 3
    THEN LET n == Len(history)
         IN  <<history[n - 2][1] + history[n - 1][1] + history[n][1],
               history[n - 2][2] + history[n - 1][2] + history[n][2]>>
    ELSE new

\* the emitted point, given the history after the append
smooth(history, new) ==
    IF Len(history) >= 3
    THEN LET n == Len(history)
         IN  <<(history[n - 2][1] + history[n - 1][1] + history[n][1]) \div 3,
               (history[n - 2][2] + history[n - 1][2] + history[n][2]) \div 3>>
    ELSE new

\* returns the focus point and the history the call leaves behind
calculate_smooth_focus(faces, frame_width, frame_height, history) ==
    IF faces = <<>>
    THEN [focus |-> IF history # <<>> THEN history[Len(history)]
                    ELSE <<frame_width \div 2, frame_height \div 2>>,
          history |-> history]
    ELSE LET new == weighted_center(faces, frame_width, frame_height)
             h2 == deque_append(history, new)
         IN  [focus |-> smooth(h2, new), history |-> h2]

(***************************************************************************)
(* calculate_dynamic_crop                                                  *)
(***************************************************************************)
RECURSIVE MinOf(_)
MinOf(s) == IF Len(s) = 1 THEN s[1] ELSE Min(Head(s), MinOf(Tail(s)))
RECURSIVE MaxOf(_)
MaxOf(s) == IF Len(s) = 1 THEN s[1] ELSE Max(Head(s), MaxOf(Tail(s)))

face_group_width(faces) ==
    MaxOf([k \in 1..Len(faces) |-> faces[k][1] + faces[k][3]])
      - MinOf([k \in 1..Len(faces) |-> faces[k][1]])
face_group_height(faces) ==
    MaxOf([k \in 1..Len(faces) |-> faces[k][2] + faces[k][4]])
      - MinOf([k \in 1..Len(faces) |-> faces[k][2]])

use_letterbox_SeparationGE(faces, frame_width, ta) ==
    /\ ta[1] < ta[2]
    /\ Len(faces) >= 2
    /\ face_group_height(faces) > 0
    /\ 2 * face_group_width(faces) > 3 * face_group_height(faces)
    /\ 5 * face_group_width(faces) >= 2 * frame_width

\* target_aspect < 1 and len(faces) >= 2 and face_group_height > 0
\* and face_aspect > 1.5 and horizontal_separation > 0.4
use_letterbox(faces, frame_width, ta) ==
    /\ ta[1] < ta[2]
    /\ Len(faces) >= 2
    /\ face_group_height(faces) > 0
    /\ 2 * face_group_width(faces) > 3 * face_group_height(faces)
    /\ 5 * face_group_width(faces) > 2 * frame_width

\* <<letterbox_width, letterbox_height>>
letterbox_dims_FullHeight(frame_width, frame_height) ==
    <<(frame_height * 16) \div 9, frame_height>>

letterbox_dims(frame_width, frame_height) ==
    IF (frame_height * 16) \div 9 > frame_width
    THEN <<frame_width, (frame_width * 9) \div 16>>
    ELSE <<(frame_height * 16) \div 9, frame_height>>

target_dims_Inverted(frame_width, frame_height, ta) ==
    IF ta[1] * frame_height > ta[2] * frame_width
    THEN <<frame_width, (frame_width * ta[1]) \div ta[2]>>
    ELSE <<(frame_height * ta[2]) \div ta[1], frame_height>>

\* the derived dimension rounded to the nearest pixel
target_dims_RoundNearest(frame_width, frame_height, ta) ==
    IF ta[1] * frame_height > ta[2] * frame_width
    THEN <<frame_width, (2 * frame_width * ta[2] + ta[1]) \div (2 * ta[1])>>
    ELSE <<(2 * frame_height * ta[1] + ta[2]) \div (2 * ta[2]), frame_height>>

\* <<target_width, target_height>>
target_dims(frame_width, frame_height, ta) ==
    IF ta[1] * frame_height > ta[2] * frame_width
    THEN <<frame_width, (frame_width * ta[2]) \div ta[1]>>
    ELSE <<(frame_height * ta[1]) \div ta[2], frame_height>>

crop_origin_NoUpperClamp(focus, size, frame) == Max(0, focus - size \div 2)

\* crop_x = focus_x - w // 2; crop_x = max(0, min(crop_x, frame_width - w))
crop_origin(focus, size, frame) == Max(0, Min(focus - size \div 2, frame - size))

\* returns the crop (None without faces), the focus point and the history left behind
calculate_dynamic_crop(faces, frame_width, frame_height, ta, history) ==
    IF faces = <<>>
    THEN [crop |-> None, focus |-> <<0, 0>>, history |-> history]
    ELSE LET f == calculate_smooth_focus(faces, frame_width, frame_height, history)
             lb == use_letterbox(faces, frame_width, ta)
             d == IF lb THEN letterbox_dims(frame_width, frame_height)
                  ELSE target_dims(frame_width, frame_height, ta)
         IN  [crop |-> [mode |-> IF lb THEN "letterbox" ELSE "smart",
                        crop_x |-> crop_origin(f.focus[1], d[1], frame_width),
                        crop_y |-> crop_origin(f.focus[2], d[2], frame_height),
                        crop_w |-> d[1],
                        crop_h |-> d[2],
                        letterbox |-> lb,
                        face_count |-> Len(faces)],
              focus |-> f.focus,
              history |-> f.history]

(***************************************************************************)
(* analyze_video_smooth: the aggregation after the sampling loop           *)
(***************************************************************************)
RECURSIVE insert_sorted(_, _)
insert_sorted(s, v) ==
    IF s = <<>> THEN <<v>>
    ELSE IF v <= Head(s) THEN <<v>> \o s
    ELSE <<Head(s)>> \o insert_sorted(Tail(s), v)

RECURSIVE sorted(_)
sorted(s) == IF s = <<>> THEN <<>> ELSE insert_sorted(sorted(Tail(s)), Head(s))

is_letterbox(c) == c.letterbox

\* one eligible candidate is enough
letterbox_confirmed_AnyEligible(crops, counts) ==
    /\ SumSeq(counts) >= 2 * Len(counts)
    /\ Len(SelectSeq(crops, is_letterbox)) > 0

letterbox_confirmed_RateGE(crops, counts) ==
    /\ SumSeq(counts) >= 2 * Len(counts)
    /\ 5 * Len(SelectSeq(crops, is_letterbox)) >= 3 * Len(crops)

\* avg_faces >= 2.0 and letterbox_rate > 0.6
letterbox_confirmed(crops, counts) ==
    /\ SumSeq(counts) >= 2 * Len(counts)
    /\ 5 * Len(SelectSeq(crops, is_letterbox)) > 3 * Len(crops)

\* the first LETTERBOX candidate instead of the middle one
aggregate_FirstLetterbox(crops, counts) ==
    IF crops = <<>> THEN None
    ELSE IF letterbox_confirmed(crops, counts)
    THEN SelectSeq(crops, is_letterbox)[1]
    ELSE LET median_idx == Len(crops) \div 2 + 1
         IN  [mode |-> "smart_smooth",
              crop_x |-> sorted([k \in 1..Len(crops) |-> crops[k].crop_x])[median_idx],
              crop_y |-> sorted([k \in 1..Len(crops) |-> crops[k].crop_y])[median_idx],
              crop_w |-> sorted([k \in 1..Len(crops) |-> crops[k].crop_w])[median_idx],
              crop_h |-> sorted([k \in 1..Len(crops) |-> crops[k].crop_h])[median_idx],
              letterbox |-> FALSE,
              face_count |-> 1]

\* a plan made up although there is no candidate
aggregate_PlanWithoutCandidates(crops, counts) ==
    [mode |-> "smart_smooth", crop_x |-> 0, crop_y |-> 0, crop_w |-> 0, crop_h |-> 0,
     letterbox |-> FALSE, face_count |-> 1]

aggregate(crops, counts) ==
    IF crops = <<>> THEN None
    ELSE IF letterbox_confirmed(crops, counts)
    THEN LET letterbox_crops == SelectSeq(crops, is_letterbox)
         IN  letterbox_crops[Len(letterbox_crops) \div 2 + 1]
    ELSE LET median_idx == Len(crops) \div 2 + 1
         IN  [mode |-> "smart_smooth",
              crop_x |-> sorted([k \in 1..Len(crops) |-> crops[k].crop_x])[median_idx],
              crop_y |-> sorted([k \in 1..Len(crops) |-> crops[k].crop_y])[median_idx],
              crop_w |-> sorted([k \in 1..Len(crops) |-> crops[k].crop_w])[median_idx],
              crop_h |-> sorted([k \in 1..Len(crops) |-> crops[k].crop_h])[median_idx],
              letterbox |-> FALSE,
              face_count |-> 1]

(***************************************************************************)
(* Inputs                                                                  *)
(***************************************************************************)
Threads == {1, 2}

Targets == {<<9, 16>>, <<16, 9>>, <<1, 1>>}
Videos == {<<16, 9>>, <<10, 10>>, <<1920, 1080>>, <<20, 9>>}

\* what the cascades report for one frame (all_faces before the suppression)
frames_of(v) ==
    IF v = <<16, 9>>
    THEN { <<>>,
           << <<0, 3, 2, 2, 10>> >>,
           << <<14, 3, 2, 2, 10>> >>,
           << <<0, 3, 2, 2, 10>>, <<14, 3, 2, 2, 8>> >>,
           << <<0, 3, 2, 2, 10>>, <<0, 3, 3, 3, 8>>, <<14, 3, 2, 2, 8>> >>,
           << <<7, 0, 2, 2, 10>>, <<7, 6, 2, 2, 8>> >> }
    ELSE IF v = <<20, 9>>
    THEN { <<>>,
           << <<18, 3, 2, 2, 10>> >>,
           << <<0, 3, 2, 2, 10>>, <<18, 3, 2, 2, 8>> >> }
    ELSE IF v = <<1920, 1080>>
    THEN { <<>>,
           << <<920, 500, 80, 80, 10>> >>,
           << <<1700, 400, 80, 80, 10>> >>,
           << <<100, 400, 80, 80, 10>>, <<1700, 420, 80, 80, 8>> >> }
    ELSE { <<>>,
           << <<8, 8, 2, 2, 10>> >>,
           << <<3, 4, 2, 2, 10>>, <<5, 4, 2, 2, 8>> >>,
           << <<2, 2, 2, 4, 10>>, <<6, 2, 2, 4, 8>> >>,
           << <<0, 6, 2, 2, 10>>, <<8, 7, 2, 2, 8>> >> }

ConcVideos == {<<16, 9>>}
ConcTargets == {<<9, 16>>}
ConcFrames == { <<>>, << <<0, 3, 2, 2, 10>> >>, << <<14, 3, 2, 2, 10>> >> }

NMSBoxes ==
    { <<0, 0, 10, 10, 10>>, <<2, 2, 3, 3, 10>>, <<1, 1, 10, 10, 9>>,
      <<2, 2, 10, 10, 6>>, <<6, 6, 3, 3, 8>>, <<5, 5, 0, 4, 8>>, <<20, 0, 4, 4, 8>>,
      <<10, 10, 100, 100, 9>>, <<20, 20, 100, 100, 6>> }

NMSInputs == UNION {[1..n -> NMSBoxes] : n \in 0..MaxFaces}

(***************************************************************************)
(* The process: threads running analyze_video_smooth on advanced_cropper   *)
(***************************************************************************)
NoSample == [faces |-> <<>>, focus |-> <<0, 0>>, crop |-> None,
             alone_focus |-> <<0, 0>>, alone_crop |-> None]

InitProc ==
    /\ tracking_history = <<>>
    /\ pc = [t \in Threads |-> "idle"]
    /\ video = [t \in Threads |-> <<0, 0>>]
    /\ target = [t \in Threads |-> <<1, 1>>]
    /\ num_samples = [t \in Threads |-> 0]
    /\ idx = [t \in Threads |-> 0]
    /\ attempted = [t \in Threads |-> {}]
    /\ all_crops = [t \in Threads |-> <<>>]
    /\ face_counts = [t \in Threads |-> <<>>]
    /\ last = [t \in Threads |-> NoSample]
    /\ result = [t \in Threads |-> None]
    /\ clips = [t \in Threads |-> 0]
    /\ own_history = [t \in Threads |-> <<>>]

InitClip ==
    /\ expired = [t \in Threads |-> FALSE]
    /\ smart_filter = [t \in Threads |-> None]
    /\ output = [t \in Threads |-> "none"]

InitNoDetect ==
    /\ det_pc = "off"
    /\ det_frame = <<>>
    /\ det_out = <<>>

InitNoTrack ==
    /\ trk_in = <<>>
    /\ trk_out = <<>>

InitNoFocus ==
    /\ foc_pc = "off"
    /\ foc_faces = <<>>
    /\ foc_history = <<>>
    /\ foc_out = <<>>

InitNoSampling ==
    /\ smp_total = 0
    /\ smp_n = 0
    /\ smp_pos = <<>>

InitNoNMS ==
    /\ nms_pc = "off"
    /\ nms_faces = <<>>
    /\ nms_keep = <<>>
    /\ nms_again = <<>>

Init ==
    /\ InitProc
    /\ InitClip
    /\ InitNoNMS
    /\ InitNoDetect
    /\ InitNoTrack
    /\ InitNoFocus
    /\ InitNoSampling

\* detect_all_faces: the cascades' boxes, then the suppression
detect_all_faces(raw) == nms_results(raw)

\* analyze_video_smooth up to the sampling loop, the capture opened
Open(t, ns, v, ta) ==
    /\ pc[t] = "idle"
    /\ pc' = [pc EXCEPT ![t] = "sampling"]
    /\ video' = [video EXCEPT ![t] = v]
    /\ target' = [target EXCEPT ![t] = ta]
    /\ num_samples' = [num_samples EXCEPT ![t] = ns]
    /\ idx' = [idx EXCEPT ![t] = 0]
    /\ attempted' = [attempted EXCEPT ![t] = {}]
    /\ all_crops' = [all_crops EXCEPT ![t] = <<>>]
    /\ face_counts' = [face_counts EXCEPT ![t] = <<>>]
    /\ last' = [last EXCEPT ![t] = NoSample]
    /\ result' = [result EXCEPT ![t] = None]
    /\ clips' = [clips EXCEPT ![t] = @ + 1]
    /\ own_history' = [own_history EXCEPT ![t] = <<>>]
    /\ UNCHANGED <<tracking_history, nmsVars, otherVars>>

\* cap.isOpened() is false: return None
OpenFail(t) ==
    /\ pc[t] = "idle"
    /\ pc' = [pc EXCEPT ![t] = "done"]
    /\ idx' = [idx EXCEPT ![t] = 0]
    /\ num_samples' = [num_samples EXCEPT ![t] = 0]
    /\ attempted' = [attempted EXCEPT ![t] = {}]
    /\ all_crops' = [all_crops EXCEPT ![t] = <<>>]
    /\ face_counts' = [face_counts EXCEPT ![t] = <<>>]
    /\ last' = [last EXCEPT ![t] = NoSample]
    /\ result' = [result EXCEPT ![t] = None]
    /\ clips' = [clips EXCEPT ![t] = @ + 1]
    /\ own_history' = [own_history EXCEPT ![t] = <<>>]
    /\ UNCHANGED <<tracking_history, video, target, nmsVars, otherVars>>

\* one pass of the loop body with ret true; the last pass runs on into the
\* aggregation, which touches only locals
Sample(t, raw) ==
    /\ pc[t] = "sampling"
    /\ idx[t] < num_samples[t]
    /\ \E faces \in detect_all_faces(raw) :
        LET r == calculate_dynamic_crop(faces, video[t][1], video[t][2], target[t],
                                        tracking_history)
            a == calculate_dynamic_crop(faces, video[t][1], video[t][2], target[t],
                                        own_history[t])
            crops2 == IF faces # <<>> THEN Append(all_crops[t], r.crop) ELSE all_crops[t]
            counts2 == Append(face_counts[t], Len(faces))
            finished == idx[t] + 1 = num_samples[t]
        IN  /\ tracking_history' = r.history
            /\ own_history' = [own_history EXCEPT ![t] = a.history]
            /\ last' = [last EXCEPT ![t] = [faces |-> faces, focus |-> r.focus,
                                            crop |-> r.crop, alone_focus |-> a.focus,
                                            alone_crop |-> a.crop]]
            /\ all_crops' = [all_crops EXCEPT ![t] = crops2]
            /\ face_counts' = [face_counts EXCEPT ![t] = counts2]
            /\ attempted' = [attempted EXCEPT ![t] = @ \cup {idx[t]}]
            /\ idx' = [idx EXCEPT ![t] = @ + 1]
            /\ pc' = [pc EXCEPT ![t] = IF finished THEN "done" ELSE "sampling"]
            /\ result' = [result EXCEPT ![t] =
                              IF finished THEN aggregate(crops2, counts2) ELSE None]
    /\ UNCHANGED <<video, target, num_samples, clips, nmsVars, otherVars>>

\* cap.read() returns ret false: break, then the aggregation
ReadFail(t) ==
    /\ pc[t] = "sampling"
    /\ idx[t] < num_samples[t]
    /\ attempted' = [attempted EXCEPT ![t] = @ \cup {idx[t]}]
    /\ pc' = [pc EXCEPT ![t] = "done"]
    /\ result' = [result EXCEPT ![t] = aggregate(all_crops[t], face_counts[t])]
    /\ UNCHANGED <<tracking_history, video, target, num_samples, idx, all_crops,
                   face_counts, last, clips, own_history, nmsVars, otherVars>>

\* the session thread goes on to format its next clip
Return(t) ==
    /\ pc[t] = "done"
    /\ clips[t] < MaxClips
    /\ pc' = [pc EXCEPT ![t] = "idle"]
    /\ UNCHANGED <<tracking_history, video, target, num_samples, idx, attempted,
                   all_crops, face_counts, last, result, clips, own_history, nmsVars, otherVars>>

\* one analysis of any video and target, from a fresh process
Next ==
    \/ \E v \in Videos, ta \in Targets : Open(1, MaxSamples, v, ta)
    \/ OpenFail(1)
    \/ \E raw \in frames_of(video[1]) : Sample(1, raw)
    \/ ReadFail(1)

Spec == Init /\ [][Next]_vars

\* one session thread formatting clip after clip (format_video_clip, 9:16)
NextReuse ==
    \/ \E v \in ConcVideos, ta \in ConcTargets : Open(1, ConcSamples, v, ta)
    \/ OpenFail(1)
    \/ \E raw \in ConcFrames : Sample(1, raw)
    \/ ReadFail(1)
    \/ Return(1)

SpecReuse == Init /\ [][NextReuse]_vars

\* one session thread formatting clips of different sizes in turn
ReuseVideos == {<<1920, 1080>>, <<16, 9>>}

ReuseFrames(v) ==
    IF v = <<1920, 1080>>
    THEN { <<>>, << <<1700, 400, 80, 80, 10>> >> }
    ELSE ConcFrames

NextTwoSizes ==
    \/ \E v \in ReuseVideos, ta \in ConcTargets : Open(1, ConcSamples, v, ta)
    \/ OpenFail(1)
    \/ \E raw \in ReuseFrames(video[1]) : Sample(1, raw)
    \/ ReadFail(1)
    \/ Return(1)

SpecTwoSizes == Init /\ [][NextTwoSizes]_vars

\* two session threads, one clip each
NextConc ==
    \E t \in Threads :
        \/ \E v \in ConcVideos, ta \in ConcTargets : Open(t, ConcSamples, v, ta)
        \/ OpenFail(t)
        \/ \E raw \in ConcFrames : Sample(t, raw)
        \/ ReadFail(t)

SpecConc == Init /\ [][NextConc]_vars

(***************************************************************************)
(* non_max_suppression applied to a list, then to its own output           *)
(***************************************************************************)
InitNMS ==
    /\ InitProc
    /\ InitClip
    /\ InitNoDetect
    /\ InitNoTrack
    /\ InitNoFocus
    /\ InitNoSampling
    /\ nms_pc = "input"
    /\ nms_faces \in NMSInputs
    /\ nms_keep = <<>>
    /\ nms_again = <<>>

ApplyNMS ==
    /\ nms_pc = "input"
    /\ nms_keep' \in nms_results(nms_faces)
    /\ nms_pc' = "once"
    /\ UNCHANGED <<nms_faces, nms_again, procVars, otherVars>>

ReapplyNMS ==
    /\ nms_pc = "once"
    /\ nms_again' \in nms_results(nms_keep)
    /\ nms_pc' = "twice"
    /\ UNCHANGED <<nms_faces, nms_keep, procVars, otherVars>>

NextNMS == ApplyNMS \/ ReapplyNMS

SpecNMS == InitNMS /\ [][NextNMS]_vars

(***************************************************************************)
(* detect_all_faces as a function of what each cascade does on the frame   *)
(***************************************************************************)
Fail == "fail"
Raised == [mode |-> "raised"]

DetectFrameWidth == 16

\* (x, y, w, h) -> (x, y, w, h, confidence)
with_confidence(rects, c) ==
    [k \in 1..Len(rects) |-> <<rects[k][1], rects[k][2], rects[k][3], rects[k][4], c>>]

\* boxes found on the mirrored image, converted back
unflip(rects, w) ==
    [k \in 1..Len(rects) |->
        <<w - rects[k][1] - rects[k][3], rects[k][2], rects[k][3], rects[k][4], 8>>]

\* upper bodies -> estimated face boxes
body_faces(rects) ==
    [k \in 1..Len(rects) |->
        <<rects[k][1] + rects[k][3] \div 4, rects[k][2] + rects[k][4] \div 10,
          rects[k][3] \div 2, (3 * rects[k][4]) \div 10, 6>>]

\* the list after the three face cascades; only the two profile calls are
\* inside try/except
face_cascades(f, w) ==
    with_confidence(f.frontal, 10)
        \o (IF f.profile = Fail THEN <<>> ELSE with_confidence(f.profile, 8))
        \o (IF f.profile_flip = Fail THEN <<>> ELSE unflip(f.profile_flip, w))

\* the set of values detect_all_faces can return, or {Raised}
fuse(f, w) ==
    IF f.frontal = Fail THEN {Raised}
    ELSE LET all_faces == face_cascades(f, w)
         IN  IF Len(all_faces) = 0
             THEN IF f.bodies = Fail THEN {Raised}
                  ELSE nms_results(body_faces(f.bodies))
             ELSE nms_results(all_faces)

FrontalOutcomes == {Fail, <<>>, << <<4, 2, 4, 4>> >>}
ProfileOutcomes == {Fail, <<>>, << <<5, 2, 4, 4>> >>}
FlipOutcomes    == {Fail, <<>>, << <<4, 2, 4, 4>> >>}
BodyOutcomes    == {Fail, <<>>, << <<0, 0, 8, 8>> >>}

DetectFrames ==
    [frontal : FrontalOutcomes, profile : ProfileOutcomes,
     profile_flip : FlipOutcomes, bodies : BodyOutcomes]

InitDetect ==
    /\ InitProc
    /\ InitClip
    /\ InitNoNMS
    /\ InitNoTrack
    /\ InitNoFocus
    /\ InitNoSampling
    /\ det_pc = "input"
    /\ det_frame \in DetectFrames
    /\ det_out = <<>>

Detect ==
    /\ det_pc = "input"
    /\ det_out' \in fuse(det_frame, DetectFrameWidth)
    /\ det_pc' = "done"
    /\ UNCHANGED <<det_frame, procVars, nmsVars, clipVars, trkVars, focVars, smpVars>>

NextDetect == Detect

SpecDetect == InitDetect /\ [][NextDetect]_vars

(***************************************************************************)
(* calculate_smooth_focus called again and again on one tracker            *)
(***************************************************************************)
TrackFrame == <<16, 9>>

\* one face on the left, one on the right and lower
TrackFaces == { << <<0, 3, 2, 2, 10>> >>, << <<14, 5, 2, 2, 10>> >> }

procRest == <<pc, video, target, num_samples, idx, attempted, all_crops, face_counts,
              last, result, clips, own_history>>

Track(faces) ==
    /\ Len(trk_in) < MaxCalls
    /\ LET r == calculate_smooth_focus(faces, TrackFrame[1], TrackFrame[2],
                                       tracking_history)
       IN  /\ tracking_history' = r.history
           /\ trk_in' = Append(trk_in, weighted_center(faces, TrackFrame[1], TrackFrame[2]))
           /\ trk_out' = Append(trk_out, r.focus)
    /\ UNCHANGED <<procRest, nmsVars, clipVars, detVars, focVars, smpVars>>

NextTrack == \E faces \in TrackFaces : Track(faces)

SpecTrack == Init /\ [][NextTrack]_vars

(***************************************************************************)
(* format_video_clip: the analysis, then the smart crop or the center crop *)
(***************************************************************************)
\* no detection, one face, six faces spread over the width
ClipFrames ==
    { <<>>,
      << <<14, 3, 2, 2, 10>> >>,
      << <<0, 2, 2, 2, 10>>, <<7, 2, 2, 2, 10>>, <<14, 2, 2, 2, 8>>,
         <<0, 5, 2, 2, 8>>, <<7, 5, 2, 2, 6>>, <<14, 5, 2, 2, 6>> >> }

\* the filter built from crop_data: the blurred background with the crop
\* overlaid when crop_data carries letterbox, a plain crop otherwise
generate_smooth_ffmpeg_filter(crop_data) ==
    IF crop_data = None THEN "none"
    ELSE IF crop_data.letterbox THEN "blur_overlay"
    ELSE "crop"

\* a cascade outside try/except raises in detect_all_faces: the exception
\* leaves analyze_video_smooth and is caught in smooth_smart_crop_video,
\* which returns False; format_video_clip goes on to the center crop
DetectRaise(t) ==
    /\ pc[t] = "sampling"
    /\ idx[t] < num_samples[t]
    /\ attempted' = [attempted EXCEPT ![t] = @ \cup {idx[t]}]
    /\ result' = [result EXCEPT ![t] = Raised]
    /\ pc' = [pc EXCEPT ![t] = "formatted"]
    /\ smart_filter' = [smart_filter EXCEPT ![t] = None]
    /\ output' = [output EXCEPT ![t] = "center_crop"]
    /\ UNCHANGED <<tracking_history, video, target, num_samples, idx, all_crops,
                   face_counts, last, clips, own_history, expired, nmsVars, detVars,
                   trkVars, focVars, smpVars>>

\* time goes by while the loop runs; the loop reads no clock
DeadlinePasses(t) ==
    /\ pc[t] = "sampling"
    /\ ~expired[t]
    /\ expired' = [expired EXCEPT ![t] = TRUE]
    /\ UNCHANGED <<procVars, smart_filter, output, nmsVars, detVars, trkVars, focVars, smpVars>>

\* crop_data is None: smooth_smart_crop_video returns False before any
\* filter is built, format_video_clip falls back to the center crop
NoDecision(t) ==
    /\ pc[t] = "done"
    /\ result[t] = None
    /\ pc' = [pc EXCEPT ![t] = "formatted"]
    /\ smart_filter' = [smart_filter EXCEPT ![t] = None]
    /\ output' = [output EXCEPT ![t] = "center_crop"]
    /\ UNCHANGED <<tracking_history, video, target, num_samples, idx, attempted,
                   all_crops, face_counts, last, result, clips, own_history, expired,
                   nmsVars, detVars, trkVars,
                   focVars, smpVars>>

\* the filter is generated from crop_data and ffmpeg returns 0
SmartCrop(t) ==
    /\ pc[t] = "done"
    /\ result[t] # None
    /\ pc' = [pc EXCEPT ![t] = "formatted"]
    /\ smart_filter' = [smart_filter EXCEPT ![t] = result[t]]
    /\ output' = [output EXCEPT ![t] = "smart_crop"]
    /\ UNCHANGED <<tracking_history, video, target, num_samples, idx, attempted,
                   all_crops, face_counts, last, result, clips, own_history, expired,
                   nmsVars, detVars, trkVars,
                   focVars, smpVars>>

\* ffprobe fails before the filter is built, or ffmpeg fails with it:
\* smooth_smart_crop_video returns False, the center crop follows
SmartCropFail(t) ==
    /\ pc[t] = "done"
    /\ result[t] # None
    /\ pc' = [pc EXCEPT ![t] = "formatted"]
    /\ \E f \in {None, result[t]} : smart_filter' = [smart_filter EXCEPT ![t] = f]
    /\ output' = [output EXCEPT ![t] = "center_crop"]
    /\ UNCHANGED <<tracking_history, video, target, num_samples, idx, attempted,
                   all_crops, face_counts, last, result, clips, own_history, expired,
                   nmsVars, detVars, trkVars,
                   focVars, smpVars>>

\* one 9:16 clip formatted without the letterbox flag
NextClip ==
    \/ \E v \in ConcVideos, ta \in ConcTargets : Open(1, ClipSamples, v, ta)
    \/ OpenFail(1)
    \/ \E raw \in ClipFrames : Sample(1, raw)
    \/ ReadFail(1)
    \/ DetectRaise(1)
    \/ DeadlinePasses(1)
    \/ NoDecision(1)
    \/ SmartCrop(1)
    \/ SmartCropFail(1)

SpecClip == Init /\ [][NextClip]_vars

(***************************************************************************)
(* calculate_smooth_focus as a function of the detections and the history  *)
(***************************************************************************)
\* no detection, one of zero area, one of zero confidence, two of zero
\* area, a plain one, a plain one with one of zero area
FocusFaces ==
    { <<>>,
      << <<3, 3, 0, 2, 10>> >>,
      << <<3, 3, 2, 2, 0>> >>,
      << <<3, 3, 0, 2, 10>>, <<12, 5, 2, 0, 8>> >>,
      << <<0, 3, 2, 2, 10>> >>,
      << <<14, 5, 2, 2, 10>>, <<3, 3, 0, 2, 10>> >> }

FocusPoints == {<<1, 4>>, <<15, 6>>}

MaxHistory == 3

FocusHistories == UNION {[1..n -> FocusPoints] : n \in 0..MaxHistory}

InitFocus ==
    /\ InitProc
    /\ InitClip
    /\ InitNoNMS
    /\ InitNoDetect
    /\ InitNoTrack
    /\ InitNoSampling
    /\ foc_pc = "input"
    /\ foc_faces \in FocusFaces
    /\ foc_history \in FocusHistories
    /\ foc_out = <<>>

Focus ==
    /\ foc_pc = "input"
    /\ foc_out' = calculate_smooth_focus(foc_faces, TrackFrame[1], TrackFrame[2],
                                         foc_history)
    /\ foc_pc' = "done"
    /\ UNCHANGED <<foc_faces, foc_history, procVars, nmsVars, clipVars, detVars,
                   trkVars, smpVars>>

NextFocus == Focus

SpecFocus == InitFocus /\ [][NextFocus]_vars

(***************************************************************************)
(* analyze_video_smooth: the frame positions the sampling loop seeks to    *)
(***************************************************************************)
sample_interval(total_frames, n) == Max(1, total_frames \div n)

\* the position set in pass i of the loop, i counted from 0
frame_pos(i, total_frames, n) == Min(i * sample_interval(total_frames, n), total_frames - 1)

InitSampling ==
    /\ InitProc
    /\ InitClip
    /\ InitNoNMS
    /\ InitNoDetect
    /\ InitNoTrack
    /\ InitNoFocus
    /\ smp_total \in 1..MaxFrames
    /\ smp_n \in 1..MaxNum
    /\ smp_pos = <<>>

\* cap.set(CAP_PROP_POS_FRAMES, frame_pos), the read succeeding
SetPosition ==
    /\ smp_total > 0
    /\ Len(smp_pos) < smp_n
    /\ smp_pos' = Append(smp_pos, frame_pos(Len(smp_pos), smp_total, smp_n))
    /\ UNCHANGED <<smp_total, smp_n, procVars, nmsVars, clipVars, detVars, trkVars,
                   focVars>>

NextSampling == SetPosition

SpecSampling == InitSampling /\ [][NextSampling]_vars

(***************************************************************************)
(* Properties                                                              *)
(***************************************************************************)
Range(s) == {s[k] : k \in 1..Len(s)}
SetMax(S) == CHOOSE m \in S : \A n \in S : n <= m
SetMin(S) == CHOOSE m \in S : \A n \in S : m <= n

InFrame(c, v) ==
    /\ 0 <= c.crop_x
    /\ c.crop_x + c.crop_w <= v[1]
    /\ 0 <= c.crop_y
    /\ c.crop_y + c.crop_h <= v[2]

\* C1: the decision analyze_video_smooth returns has its region inside the
\* frame: 0 <= crop_x, crop_x + crop_w <= frameWidth, 0 <= crop_y,
\* crop_y + crop_h <= frameHeight, whichever way it was aggregated.
C1_AggregateInFrame ==
    \A t \in Threads :
        (pc[t] = "done" /\ result[t] # None) => InFrame(result[t], video[t])

\* C2: every per-sample plan of calculate_dynamic_crop, in either mode, has
\* its region inside the frame.
C2_SampleCropInFrame ==
    \A t \in Threads : last[t].crop # None => InFrame(last[t].crop, video[t])

\* a standard plan whose origin was pulled back to the right or bottom edge
C2_Witness ==
    \E t \in Threads :
        /\ last[t].crop # None
        /\ last[t].crop.crop_x > 0
        /\ last[t].crop.crop_x + last[t].crop.crop_w = video[t][1]
        /\ last[t].focus[1] - last[t].crop.crop_w \div 2 > last[t].crop.crop_x

\* |crop_w / crop_h - a / b| <= 1 / crop_h, cross-multiplied
AspectWithinOnePixel(c, ta) ==
    /\ c.crop_h > 0
    /\ c.crop_w * ta[2] - ta[1] * c.crop_h <= ta[2]
    /\ ta[1] * c.crop_h - c.crop_w * ta[2] <= ta[2]

DerivedDimension(c, v, ta) ==
    \/ /\ c.crop_h = v[2]
       /\ 0 <= ta[1] * c.crop_h - ta[2] * c.crop_w
       /\ ta[1] * c.crop_h - ta[2] * c.crop_w < ta[2]
    \/ /\ c.crop_w = v[1]
       /\ 0 <= ta[2] * c.crop_w - ta[1] * c.crop_h
       /\ ta[2] * c.crop_w - ta[1] * c.crop_h < ta[1]

C4_NoPairOverSmallerArea ==
    nms_pc # "input" =>
        \A i, j \in 1..Len(nms_keep) :
            (i < j /\ Min(Area(nms_keep[i]), Area(nms_keep[j])) > 0) =>
                10 * Intersection(nms_keep[i], nms_keep[j])
                    <= overlap_thresh10 * Min(Area(nms_keep[i]), Area(nms_keep[j]))

\* C4 amended: for two kept detections, the intersection is at most the
\* threshold times the area of the one kept first (the one of higher or
\* equal confidence).
C4_NoPairOverKeptArea ==
    nms_pc # "input" =>
        \A i, j \in 1..Len(nms_keep) :
            i < j => 10 * Intersection(nms_keep[i], nms_keep[j])
                        <= overlap_thresh10 * Area(nms_keep[i])

\* two boxes kept although one lies inside the other, and a third suppressed
C4_Witness ==
    /\ nms_pc = "once"
    /\ Len(nms_keep) < Len(nms_faces)
    /\ \E i, j \in 1..Len(nms_keep) :
        /\ i < j
        /\ Intersection(nms_keep[i], nms_keep[j]) = Area(nms_keep[j])
        /\ Area(nms_keep[j]) > 0

\* C5: applying non_max_suppression to its own output returns the same set
\* of detections.
C5_Idempotent ==
    nms_pc = "twice" => Range(nms_again) = Range(nms_keep)

\* C6: when an analysis begins, the history it smooths against is empty,
\* however many analyses the process ran before.
C6_FreshHistoryAtStart ==
    \A t \in Threads :
        (pc[t] = "sampling" /\ idx[t] = 0
            /\ \A u \in Threads \ {t} : pc[u] # "sampling")
        => tracking_history = <<>>

\* C7: with analyses running concurrently, the focus point and crop of each
\* sample equal what the analysis emits when run alone.
C7_SameAsAlone ==
    \A t \in Threads :
        /\ last[t].focus = last[t].alone_focus
        /\ last[t].crop = last[t].alone_crop

LetterboxCount(crops) == Cardinality({k \in 1..Len(crops) : crops[k].mode = "letterbox"})

\* C8: with at least one candidate, the final mode is LETTERBOX iff the mean
\* detection count over the read samples is >= 2.0 and more than 0.6 of the
\* candidates are LETTERBOX; otherwise STANDARD with the letterbox flag false.
C8_LetterboxIffHysteresis ==
    \A t \in Threads :
        (pc[t] = "done" /\ all_crops[t] # <<>>) =>
            /\ Len(face_counts[t]) = idx[t]
            /\ IF /\ SumSeq(face_counts[t]) >= 2 * Len(face_counts[t])
                  /\ 5 * LetterboxCount(all_crops[t]) > 3 * Len(all_crops[t])
               THEN result[t].mode = "letterbox" /\ result[t].letterbox
               ELSE result[t].mode = "smart_smooth" /\ ~result[t].letterbox

\* an analysis with mean count >= 2 and a rate of exactly 3/5, ended STANDARD
C8_Witness ==
    \E t \in Threads :
        /\ pc[t] = "done"
        /\ Len(all_crops[t]) = 5
        /\ LetterboxCount(all_crops[t]) = 3
        /\ SumSeq(face_counts[t]) >= 2 * Len(face_counts[t])
        /\ result[t].mode = "smart_smooth"

GroupWidth(f) == SetMax({f[k][1] + f[k][3] : k \in 1..Len(f)}) - SetMin({f[k][1] : k \in 1..Len(f)})
GroupHeight(f) == SetMax({f[k][2] + f[k][4] : k \in 1..Len(f)}) - SetMin({f[k][2] : k \in 1..Len(f)})

\* C9: a sample's plan is LETTERBOX iff the target is portrait, there are at
\* least 2 detections, the group height is > 0, groupWidth/groupHeight > 1.5
\* and groupWidth/frameWidth > 0.4; in every other case it is STANDARD.
C9_LetterboxIffEligible ==
    \A t \in Threads :
        last[t].crop # None =>
            LET f == last[t].faces
            IN  IF /\ target[t][1] < target[t][2]
                   /\ Len(f) >= 2
                   /\ GroupHeight(f) > 0
                   /\ 2 * GroupWidth(f) > 3 * GroupHeight(f)
                   /\ 5 * GroupWidth(f) > 2 * video[t][1]
                THEN last[t].crop.mode = "letterbox" /\ last[t].crop.letterbox
                ELSE last[t].crop.mode = "smart" /\ ~last[t].crop.letterbox

\* two detections side by side for a portrait target whose group spans
\* exactly 0.4 of the frame width: STANDARD
C9_Witness ==
    \E t \in Threads :
        /\ last[t].crop # None
        /\ last[t].crop.mode = "smart"
        /\ target[t][1] < target[t][2]
        /\ Len(last[t].faces) >= 2
        /\ 2 * GroupWidth(last[t].faces) > 3 * GroupHeight(last[t].faces)
        /\ 5 * GroupWidth(last[t].faces) = 2 * video[t][1]

\* C10: a failed frame read is skipped: every sample index 0 .. numSamples-1
\* of an analysis is still attempted.
C10_AllSamplesAttempted ==
    \A t \in Threads :
        (pc[t] = "done" /\ num_samples[t] > 0)
            => attempted[t] = 0..(num_samples[t] - 1)

\* the detections of the methods that did not fail, deduplicated
remaining_methods(f, w) ==
    LET faces == (IF f.frontal = Fail THEN <<>> ELSE with_confidence(f.frontal, 10))
                 \o (IF f.profile = Fail THEN <<>> ELSE with_confidence(f.profile, 8))
                 \o (IF f.profile_flip = Fail THEN <<>> ELSE unflip(f.profile_flip, w))
    IN  IF Len(faces) = 0
        THEN IF f.bodies = Fail THEN {<<>>} ELSE nms_results(body_faces(f.bodies))
        ELSE nms_results(faces)

\* C11: whatever single method fails, detect_all_faces returns the
\* deduplicated detections of the remaining methods, the failed one counting
\* as an empty list, and raises nothing.
C11_FailureIsEmptyList ==
    det_pc = "done" =>
        /\ det_out # Raised
        /\ det_out \in remaining_methods(det_frame, DetectFrameWidth)

\* C12: the tracking history is the last 10 raw centroids appended, oldest
\* first: it never holds more than 10 points, a full history drops exactly
\* its oldest entry on an append, and the entries stay in insertion order.
C12_HistoryIsLastTen ==
    LET n == Len(trk_in)
    IN  /\ Len(tracking_history) <= 10
        /\ tracking_history = SubSeq(trk_in, Max(1, n - 9), n)

\* two entries have been evicted from a full history
C12_Witness ==
    /\ Len(trk_in) = 12
    /\ Len(tracking_history) = 10
    /\ trk_in[1] # trk_in[3]
    /\ tracking_history[1] = trk_in[3]
    /\ tracking_history[10] = trk_in[12]

\* C13: when no sample produced a crop candidate, analyze_video_smooth
\* returns None, smooth_smart_crop_video builds no filter, and
\* format_video_clip runs the plain center crop; the same when the planner
\* raises.
C13_NoCandidateFallsBack ==
    \A t \in Threads :
        /\ (pc[t] = "done" /\ all_crops[t] = <<>>) => result[t] = None
        /\ (pc[t] = "formatted" /\ (all_crops[t] = <<>> \/ result[t] = Raised)) =>
               /\ result[t] \in {None, Raised}
               /\ smart_filter[t] = None
               /\ output[t] = "center_crop"

\* a clip whose samples were all read and had no detection went to the
\* center crop
C13_Witness ==
    \E t \in Threads :
        /\ pc[t] = "formatted"
        /\ idx[t] = num_samples[t]
        /\ num_samples[t] > 0
        /\ all_crops[t] = <<>>
        /\ result[t] = None
        /\ output[t] = "center_crop"

\* index n \div 2 of the values sorted, counting from 0
MedianOf(values) == sorted(values)[Len(values) \div 2 + 1]

StandardCandidates(t) == SelectSeq(all_crops[t], LAMBDA c : ~is_letterbox(c))

\* C14: a final STANDARD plan has x, y, width and height each equal to the
\* median of that field over the STANDARD-mode sample candidates alone;
\* LETTERBOX-eligible candidates enter none of the four medians.
C14_MedianOverStandardOnly ==
    \A t \in Threads :
        (/\ pc[t] = "done"
         /\ result[t] # None
         /\ result[t].mode = "smart_smooth"
         /\ StandardCandidates(t) # <<>>) =>
            LET std == StandardCandidates(t)
            IN  /\ result[t].crop_x = MedianOf([k \in 1..Len(std) |-> std[k].crop_x])
                /\ result[t].crop_y = MedianOf([k \in 1..Len(std) |-> std[k].crop_y])
                /\ result[t].crop_w = MedianOf([k \in 1..Len(std) |-> std[k].crop_w])
                /\ result[t].crop_h = MedianOf([k \in 1..Len(std) |-> std[k].crop_h])

\* positions in all_crops[t] of the LETTERBOX-eligible candidates
EligibleAt(t) == {k \in 1..Len(all_crops[t]) : all_crops[t][k].letterbox}

Hysteresis(t) ==
    /\ all_crops[t] # <<>>
    /\ SumSeq(face_counts[t]) >= 2 * Len(face_counts[t])
    /\ 5 * Cardinality(EligibleAt(t)) > 3 * Len(all_crops[t])

\* C15: when the hysteresis condition holds, the final plan is, unchanged,
\* the eligible candidate that has exactly len(eligible) \div 2 eligible
\* candidates before it in capture order.
C15_MiddleInCaptureOrder ==
    \A t \in Threads :
        (pc[t] = "done" /\ Hysteresis(t)) =>
            \E k \in EligibleAt(t) :
                /\ Cardinality({j \in EligibleAt(t) : j < k}) =
                       Cardinality(EligibleAt(t)) \div 2
                /\ result[t] = all_crops[t][k]

\* a LETTERBOX decision that is neither the first eligible candidate nor
\* the value-sorted median of the eligible crop_y
C15_Witness ==
    \E t \in Threads :
        /\ pc[t] = "done"
        /\ Hysteresis(t)
        /\ LET first == CHOOSE k \in EligibleAt(t) : \A j \in EligibleAt(t) : k <= j
               elig == SelectSeq(all_crops[t], is_letterbox)
           IN  /\ result[t] # all_crops[t][first]
               /\ result[t].crop_y # MedianOf([k \in 1..Len(elig) |-> elig[k].crop_y])

PositiveArea(f) == Area(f) > 0

\* C16: a zero-area detection never appears in the output of
\* non_max_suppression, and the detections kept besides are those kept when
\* the zero-area detections are left out of the input.
C16_ZeroAreaExcluded ==
    nms_pc # "input" =>
        /\ \A k \in 1..Len(nms_keep) : PositiveArea(nms_keep[k])
        /\ \E r \in nms_results(SelectSeq(nms_faces, PositiveArea)) :
               Range(SelectSeq(nms_keep, PositiveArea)) = Range(r)

\* C17: when the deadline passed while samples were still being processed,
\* the analysis returned "no decision" and no filter was built from the
\* samples.
C17_NoPlanAfterDeadline ==
    \A t \in Threads :
        expired[t] =>
            /\ pc[t] = "done" => result[t] = None
            /\ pc[t] = "formatted" => smart_filter[t] = None

\* the first detection a fresh tracker sees is one box centered in a
\* 1920x1080 frame, the target being 9:16
ScenarioA(t) ==
    /\ video[t] = <<1920, 1080>>
    /\ target[t] = <<9, 16>>
    /\ last[t].faces = << <<920, 500, 80, 80, 10>> >>
    /\ Len(tracking_history) = 1

\* C18 as stated: the plan of scenario A is STANDARD, 608 wide (nearest
\* pixel) and 1080 high, at y = 0 and x about 656.
C18_ScenarioA_Rounded ==
    \A t \in Threads :
        ScenarioA(t) =>
            /\ last[t].crop.mode = "smart"
            /\ last[t].crop.crop_w = 608
            /\ last[t].crop.crop_h = 1080
            /\ last[t].crop.crop_y = 0
            /\ last[t].crop.crop_x \in 655..657

\* C18 amended: the plan of scenario A is STANDARD, 607 wide (1080 * 9/16
\* = 607.5 cut to an integer) and 1080 high, at y = 0 and
\* x = 960 - 607 \div 2 = 657.
C18_ScenarioA_Truncated ==
    \A t \in Threads :
        ScenarioA(t) =>
            /\ last[t].focus = <<960, 540>>
            /\ last[t].crop.mode = "smart"
            /\ ~last[t].crop.letterbox
            /\ last[t].crop.crop_w = 607
            /\ last[t].crop.crop_h = 1080
            /\ last[t].crop.crop_y = 0
            /\ last[t].crop.crop_x = 657

C18_Witness ==
    \E t \in Threads : ScenarioA(t) /\ last[t].crop.crop_w = 607

Coordinate(points, c) == [k \in 1..Len(points) |-> points[k][c]]

\* n^2 times the population variance of xs
ScaledVariance(xs) ==
    Len(xs) * SumSeq([k \in 1..Len(xs) |-> xs[k] * xs[k]]) - SumSeq(xs) * SumSeq(xs)

\* C19 as stated: for the raw centroids fed to a fresh tracker, the variance
\* of the emitted focus points is at most the variance of the raw centroids,
\* in x and in y.
C19_VarianceNotIncreased ==
    \A c \in {1, 2} :
        ScaledVariance(Coordinate(trk_out, c)) <= ScaledVariance(Coordinate(trk_in, c))

\* the raw centroids the k-th emitted point is computed from
Window(k) == {trk_in[j] : j \in Max(1, k - 2)..k}

\* C19 amended: the first two emitted points are the raw centroids, and
\* every later one lies, in x and in y, between the least and the greatest
\* of the last three raw centroids; so the spread of the emitted points is
\* at most the spread of the raw centroids.
C19_OutputWithinLastThree ==
    /\ Len(trk_out) = Len(trk_in)
    /\ \A k \in 1..Len(trk_out) :
        /\ k <= 2 => trk_out[k] = trk_in[k]
        /\ \A c \in {1, 2} :
            /\ trk_out[k][c] >= SetMin({p[c] : p \in Window(k)})
            /\ trk_out[k][c] <= SetMax({p[c] : p \in Window(k)})
    /\ \A c \in {1, 2} :
        trk_out # <<>> =>
            SetMax(Range(Coordinate(trk_out, c))) - SetMin(Range(Coordinate(trk_out, c)))
                <= SetMax(Range(Coordinate(trk_in, c))) - SetMin(Range(Coordinate(trk_in, c)))

\* a smoothed point strictly inside the range of its window, in a run whose
\* output varies more than its input
C19_Witness ==
    /\ \E k \in 3..Len(trk_out) :
        /\ trk_out[k] # trk_in[k]
        /\ trk_out[k][1] > SetMin({p[1] : p \in Window(k)})
        /\ trk_out[k][1] < SetMax({p[1] : p \in Window(k)})
    /\ ScaledVariance(Coordinate(trk_out, 1)) > ScaledVariance(Coordinate(trk_in, 1))

TotalWeight(faces) == SumSeq([k \in 1..Len(faces) |-> face_weight(faces[k])])

\* C21: when the total weight of the detections is zero, be it that there
\* is none or that each has zero area or zero confidence, the point returned
\* is the most recent history entry, or the center of the frame when the
\* history is empty.
C21_ZeroWeightHoldsLast ==
    (foc_pc = "done" /\ TotalWeight(foc_faces) = 0) =>
        foc_out.focus = IF foc_history # <<>> THEN foc_history[Len(foc_history)]
                        ELSE <<TrackFrame[1] \div 2, TrackFrame[2] \div 2>>

\* the last n entries of h, or all of h when it is shorter
LastN(h, n) == SubSeq(h, Max(1, Len(h) - n + 1), Len(h))

StandardSample(t) == last[t].crop # None /\ last[t].crop.mode = "smart"

FitsFrame(c, v) == c.crop_w <= v[1] /\ c.crop_h <= v[2]

\* C23 as stated: a STANDARD plan has width = frameWidth and height =
\* frameWidth / targetAspect when the frame is relatively wider than the
\* target, height = frameHeight and width = frameHeight x targetAspect
\* otherwise, and fits the frame either way.
C23_FrameWiderFixesWidth ==
    \A t \in Threads :
        StandardSample(t) =>
            LET c == last[t].crop
                W == video[t][1]
                H == video[t][2]
                ta == target[t]
            IN  /\ IF W * ta[2] > ta[1] * H
                   THEN c.crop_w = W /\ c.crop_h = (W * ta[2]) \div ta[1]
                   ELSE c.crop_h = H /\ c.crop_w = (H * ta[1]) \div ta[2]
                /\ FitsFrame(c, video[t])

\* C23 amended: a STANDARD plan has width = frameWidth and height =
\* frameWidth / targetAspect when the target is relatively wider than the
\* frame, height = frameHeight and width = frameHeight x targetAspect
\* otherwise (the derived dimension cut to a whole pixel), and fits the
\* frame either way.
C23_TargetWiderFixesWidth ==
    \A t \in Threads :
        StandardSample(t) =>
            LET c == last[t].crop
                W == video[t][1]
                H == video[t][2]
                ta == target[t]
            IN  /\ IF ta[1] * H > W * ta[2]
                   THEN c.crop_w = W /\ c.crop_h = (W * ta[2]) \div ta[1]
                   ELSE c.crop_h = H /\ c.crop_w = (H * ta[1]) \div ta[2]
                /\ FitsFrame(c, video[t])

\* a target wider than the frame: the width is the frame's, the height is cut
C23_Witness ==
    \E t \in Threads :
        /\ StandardSample(t)
        /\ target[t][1] * video[t][2] > video[t][1] * target[t][2]
        /\ last[t].crop.crop_w = video[t][1]
        /\ last[t].crop.crop_h < video[t][2]

LetterboxSample(t) == last[t].crop # None /\ last[t].crop.mode = "letterbox"

Clamp(x, lo, hi) == IF x < lo THEN lo ELSE IF x > hi THEN hi ELSE x

\* C24: a LETTERBOX plan is a 16:9 region fitted to the frame: height =
\* frameHeight and width = height x 16/9 when that width is at most
\* frameWidth, else width = frameWidth and height = width x 9/16 (cut to a
\* whole pixel); its corner is focus - dimension \div 2 clamped to
\* [0, frameDim - regionDim] on each axis; letterbox is true and face_count
\* is the number of detections of the sample.
C24_LetterboxRegion ==
    \A t \in Threads :
        LetterboxSample(t) =>
            LET c == last[t].crop
                W == video[t][1]
                H == video[t][2]
                full == (H * 16) \div 9
            IN  /\ IF full <= W
                   THEN c.crop_h = H /\ c.crop_w = full
                   ELSE c.crop_w = W /\ c.crop_h = (W * 9) \div 16
                /\ c.crop_x = Clamp(last[t].focus[1] - c.crop_w \div 2, 0, W - c.crop_w)
                /\ c.crop_y = Clamp(last[t].focus[2] - c.crop_h \div 2, 0, H - c.crop_h)
                /\ c.letterbox
                /\ c.face_count = Len(last[t].faces)

\* a region narrower than the frame, pulled back to the right edge
C24_Witness ==
    \E t \in Threads :
        /\ LetterboxSample(t)
        /\ last[t].crop.crop_w < video[t][1]
        /\ last[t].crop.crop_h = video[t][2]
        /\ last[t].crop.crop_x = video[t][1] - last[t].crop.crop_w
        /\ last[t].focus[1] - last[t].crop.crop_w \div 2 > last[t].crop.crop_x

CountIn(s, f) == Cardinality({k \in 1..Len(s) : s[k] = f})

\* C25: of two kept detections the one kept first leaves the other an
\* intersection of at most the threshold times its own area; every input
\* detection missing from the output has more than that with a detection
\* kept before it; of (10,10,100,100,0.9) and (20,20,100,100,0.6) only the
\* first is kept.
C25_GreedyRule ==
    nms_pc # "input" =>
        /\ \A i, j \in 1..Len(nms_keep) :
            i < j => 10 * Intersection(nms_keep[i], nms_keep[j])
                        <= overlap_thresh10 * Area(nms_keep[i])
        /\ \A f \in Range(nms_faces) :
            CountIn(nms_keep, f) < CountIn(nms_faces, f) =>
                \E k \in 1..Len(nms_keep) :
                    /\ nms_keep[k][5] >= f[5]
                    /\ 10 * Intersection(nms_keep[k], f)
                           > overlap_thresh10 * Area(nms_keep[k])
        /\ Range(nms_faces) = {<<10, 10, 100, 100, 9>>, <<20, 20, 100, 100, 6>>} =>
               nms_keep = << <<10, 10, 100, 100, 9>> >>

\* scenario C, the detection of confidence 0.6 given first
C25_Witness ==
    /\ nms_pc = "once"
    /\ nms_faces = << <<20, 20, 100, 100, 6>>, <<10, 10, 100, 100, 9>> >>
    /\ nms_keep = << <<10, 10, 100, 100, 9>> >>

SamplingDone == smp_total > 0 /\ Len(smp_pos) = smp_n

\* C26: the sampled positions are evenly spaced over the whole clip:
\* consecutive positions differ by the sampling interval, and the last one
\* is within one interval of the final frame.
C26_EvenlySpacedOverClip ==
    SamplingDone =>
        LET d == sample_interval(smp_total, smp_n)
        IN  /\ \A k \in 1..(Len(smp_pos) - 1) : smp_pos[k + 1] - smp_pos[k] = d
            /\ (smp_total - 1) - smp_pos[Len(smp_pos)] <= d

\* C30: every frame position set within one analysis lies in
\* [0, totalFrames - 1] and none is set twice.
C30_PositionsDistinctInRange ==
    smp_total > 0 =>
        /\ \A k \in 1..Len(smp_pos) : smp_pos[k] \in 0..(smp_total - 1)
        /\ \A j, k \in 1..Len(smp_pos) : j # k => smp_pos[j] # smp_pos[k]

\* C27: for a non-empty input the output of non_max_suppression is
\* non-empty, holds only detections of the input, unmodified and no more
\* often than the input does, in non-increasing confidence order, its first
\* being one of maximal confidence in the input; for an empty input it is
\* empty.
C27_OutputOrderedSubset ==
    nms_pc # "input" =>
        /\ nms_faces = <<>> => nms_keep = <<>>
        /\ nms_faces # <<>> =>
            /\ nms_keep # <<>>
            /\ \A f \in Range(nms_faces) : nms_keep[1][5] >= f[5]
        /\ \A k \in 1..Len(nms_keep) :
            /\ nms_keep[k] \in Range(nms_faces)
            /\ CountIn(nms_keep, nms_keep[k]) <= CountIn(nms_faces, nms_keep[k])
        /\ \A k \in 1..(Len(nms_keep) - 1) : nms_keep[k][5] >= nms_keep[k + 1][5]

\* an input given in rising confidence, one detection suppressed, the two
\* kept listed in falling confidence
C27_Witness ==
    /\ nms_pc = "once"
    /\ Len(nms_faces) = 3
    /\ nms_faces[1][5] < nms_faces[2][5]
    /\ nms_faces[2][5] < nms_faces[3][5]
    /\ Len(nms_keep) = 2
    /\ nms_keep[1] = nms_faces[3]
    /\ nms_keep[1][5] > nms_keep[2][5]

\* C28: format_video_clip called without the letterbox flag never renders
\* the blurred-background composition; what the smart-crop path applies is a
\* plain crop filter.
C28_NoLetterboxWhenNotAsked ==
    \A t \in Threads :
        output[t] = "smart_crop" =>
            generate_smooth_ffmpeg_filter(smart_filter[t]) = "crop"

\* C29: the focus point a per-sample plan is placed by lies inside the
\* plan's region: crop_x <= focus_x < crop_x + crop_w and
\* crop_y <= focus_y < crop_y + crop_h, whatever the tracking history holds.
C29_FocusInsideCrop ==
    \A t \in Threads :
        last[t].crop # None =>
            /\ last[t].crop.crop_x <= last[t].focus[1]
            /\ last[t].focus[1] < last[t].crop.crop_x + last[t].crop.crop_w
            /\ last[t].crop.crop_y <= last[t].focus[2]
            /\ last[t].focus[2] < last[t].crop.crop_y + last[t].crop.crop_h

====
